---- MODULE Spec2Model ----
(***************************************************************************)
(* Model of the Claude prompt generator: the Generation Client             *)
(* (prompt_generator.py), the Flask web handler (app.py) and the command   *)
(* line front end (cli.py).                                                *)
(*                                                                         *)
(* Python text is modelled by TLA+ strings; concatenation is \o and        *)
(* substrings are taken with SubSeq.  Python values that may be None or    *)
(* of several types are tagged records: [tag |-> "none"],                  *)
(* [tag |-> "str", v |-> s], [tag |-> "int", v |-> n], [tag |-> "list",    *)
(* v |-> text of str(list)].                                               *)
(***************************************************************************)
EXTENDS Integers, Sequences, FiniteSets, TLC

VARIABLES
    front,          \* which front end this process is: "web" | "cli" | "lib"
    env_key,        \* TRUE iff ANTHROPIC_API_KEY is set to a non-empty value
    generator,      \* "unset" | "none" | "ready": the PromptGenerator instance
    pc,             \* position of the process
    args,           \* arguments of the last generate_prompt invocation, or None
    result,         \* value returned by the last generate_prompt, or None
    calls,          \* provider calls issued by the last handled operation
    provider_did,   \* what the provider did on the last call, or None
    request,        \* last HTTP body / terminal line handled, or None
    typed,          \* terminal event the blocked input() will return, or None
    response,       \* last HTTP response [status, body], or None
    health,         \* last response of GET /health [status, body], or None
    exit_code,      \* CLI process exit code, -1 while running
    gen_failed,     \* CLI: some generation of this process returned Failure
    system_prompt,  \* last text built by _build_system_prompt, or None
    user_message,   \* last text built by _build_user_message, or None
    ops             \* operations (requests, loop iterations) handled so far

vars == <<front, env_key, generator, pc, args, result, calls, provider_did, request,
          typed, response, health, exit_code, gen_failed, system_prompt,
          user_message, ops>>

----------------------------------------------------------------------------
(* Python values *)

None == [tag |-> "none"]

Str(s) == [tag |-> "str", v |-> s]

Num(n) == [tag |-> "int", v |-> n]

\* A JSON array value, here ["x"]; v is its str() text.
JList == [tag |-> "list", v |-> "['x']"]

\* Python truthiness: None, "" and 0 are false.
Truthy(x) ==
    CASE x.tag = "none" -> FALSE
      [] x.tag = "str"  -> x.v # ""
      [] x.tag = "int"  -> x.v # 0
      [] x.tag = "list" -> TRUE

\* Text an f-string substitutes for {x}.
Format(x) ==
    CASE x.tag = "none" -> "None"
      [] x.tag = "str"  -> x.v
      [] x.tag = "int"  -> ToString(x.v)
      [] x.tag = "list" -> x.v

\* Only lists (and dicts) are unhashable, so cannot be dictionary keys.
Hashable(x) == x.tag # "list"

----------------------------------------------------------------------------
(* Text helpers: str.strip, str.lower, substring search *)

Whitespace == {" ", "\t", "\n"}

RECURSIVE lstrip(_)
lstrip(s) ==
    IF Len(s) > 0 /\ SubSeq(s, 1, 1) \in Whitespace
    THEN lstrip(SubSeq(s, 2, Len(s)))
    ELSE s

RECURSIVE rstrip(_)
rstrip(s) ==
    IF Len(s) > 0 /\ SubSeq(s, Len(s), Len(s)) \in Whitespace
    THEN rstrip(SubSeq(s, 1, Len(s) - 1))
    ELSE s

strip(s) == rstrip(lstrip(s))

UpperCase == "ABCDEFGHIJKLMNOPQRSTUVWXYZ"

LowerCase == "abcdefghijklmnopqrstuvwxyz"

LowerChar(c) ==
    IF \E i \in 1..Len(UpperCase) : SubSeq(UpperCase, i, i) = c
    THEN LET i == CHOOSE j \in 1..Len(UpperCase) : SubSeq(UpperCase, j, j) = c
         IN  SubSeq(LowerCase, i, i)
    ELSE c

RECURSIVE lower(_)
lower(s) ==
    IF Len(s) = 0 THEN s
    ELSE LowerChar(SubSeq(s, 1, 1)) \o lower(SubSeq(s, 2, Len(s)))

\* Start positions at which needle occurs in s.
Occurrences(needle, s) ==
    { i \in 1..(Len(s) - Len(needle) + 1) :
        SubSeq(s, i, i + Len(needle) - 1) = needle }

Count(needle, s) == Cardinality(Occurrences(needle, s))

Contains(needle, s) == Occurrences(needle, s) # {}

StartsWith(s, p) == Len(p) <= Len(s) /\ SubSeq(s, 1, Len(p)) = p

----------------------------------------------------------------------------
(* PromptConfig defaults *)

model == "claude-3-5-sonnet-20241022"

max_tokens == 2048

----------------------------------------------------------------------------
(* Template Catalog and Message Composer *)

PromptTypes == {"general", "creative", "technical", "image"}

base_prompts ==
    [t \in PromptTypes |->
        CASE t = "general" ->
               "You are an expert prompt engineer. Your task is to create clear, effective, and well-structured prompts based on the user's requirements. \n\nFocus on:\n- Clarity and specificity\n- Proper structure and formatting\n- Including relevant context and constraints\n- Making the prompt actionable and results-oriented"
          [] t = "creative" ->
               "You are a creative prompt specialist. Your task is to generate imaginative and inspiring prompts that encourage creative thinking and artistic expression.\n\nFocus on:\n- Vivid imagery and descriptive language\n- Emotional resonance and atmosphere\n- Creative constraints that spark innovation\n- Open-ended possibilities for exploration"
          [] t = "technical" ->
               "You are a technical prompt engineer specializing in programming, development, and technical documentation prompts.\n\nFocus on:\n- Technical accuracy and precision\n- Clear specifications and requirements\n- Best practices and standards\n- Actionable technical instructions"
          [] t = "image" ->
               "You are an expert in creating prompts for AI image generation. Your task is to craft detailed, specific prompts that will produce high-quality visual results.\n\nFocus on:\n- Visual composition and style\n- Lighting, color, and atmosphere\n- Technical camera/art terminology\n- Specific details about subjects and scenes"]

\* base_prompts.get(prompt_type, base_prompts["general"])
base_prompts_get(prompt_type) ==
    IF prompt_type.tag = "str" /\ prompt_type.v \in PromptTypes
    THEN base_prompts[prompt_type.v]
    ELSE base_prompts["general"]

\* _build_system_prompt testing "custom_instructions is not None" instead of
\* its truth value.
_build_system_prompt_is_not_none(prompt_type, custom_instructions) ==
    IF custom_instructions # None
    THEN base_prompts_get(prompt_type)
            \o "\n\nAdditional instructions: " \o Format(custom_instructions)
    ELSE base_prompts_get(prompt_type)

\* The text returned for a hashable prompt_type; an unhashable one makes the
\* dictionary lookup raise TypeError (see BuildSystemPromptRaises).
_build_system_prompt(prompt_type, custom_instructions) ==
    IF Truthy(custom_instructions)
    THEN base_prompts_get(prompt_type)
            \o "\n\nAdditional instructions: " \o Format(custom_instructions)
    ELSE base_prompts_get(prompt_type)

BuildSystemPromptRaises(prompt_type) == ~Hashable(prompt_type)

\* _build_user_message appending the context segment unconditionally.
_build_user_message_always_appends(user_input, context) ==
    "Please create a prompt based on this request: " \o Format(user_input)
        \o "\n\nAdditional context: " \o Format(context)

RequestLine(user_input) ==
    "Please create a prompt based on this request: " \o Format(user_input)

_build_user_message(user_input, context) ==
    IF Truthy(context)
    THEN RequestLine(user_input) \o "\n\nAdditional context: " \o Format(context)
    ELSE RequestLine(user_input)

----------------------------------------------------------------------------
(* Bounds *)

\* Requests one web process serves, iterations one interactive loop runs.
MaxOps == 2

\* Largest token counter a provider response reports.
MaxTokenCount == 1

----------------------------------------------------------------------------
(* The provider: an opaque dependency.  One behaviour is what a call of     *)
(* client.messages.create does: raise an exception e (msg is str(e), which  *)
(* is "" for an exception constructed without arguments), or return a       *)
(* response object.                                                         *)

TokenCounts == 0..MaxTokenCount

ErrorMessages == {"Connection error.", ""}

\* response.content: an empty list, a list whose first block is a text
\* block, or a list whose first block has no attribute text.
Contents ==
    { [blocks |-> "empty"],
      [blocks |-> "text", text |-> "Write a story..."],
      [blocks |-> "tool_use"] }

\* response.usage: the attribute is missing, or it carries both counters.
Usages ==
    { [has |-> FALSE] }
      \cup { [has |-> TRUE, input_tokens |-> i, output_tokens |-> o] :
                i \in TokenCounts, o \in TokenCounts }

ProviderBehaviours ==
    { [kind |-> "raise", msg |-> m] : m \in ErrorMessages }
      \cup { [kind |-> "response", content |-> c, usage |-> u] :
                c \in Contents, u \in Usages }

----------------------------------------------------------------------------
(* Generation Client: PromptGenerator.generate_prompt *)

\* The except branch keeping a metadata dict, as analyze_image_for_prompt
\* does.
Failure_with_metadata(msg) ==
    [success |-> FALSE, error |-> msg, prompt |-> None,
     metadata |-> [model |-> model]]

\* The dict of the except branch.
Failure(msg) ==
    [success |-> FALSE, error |-> msg, prompt |-> None, metadata |-> None]

\* The metadata dict with 0 instead of None for a response without usage.
Metadata_zero_default(prompt_type, usage) ==
    [model         |-> model,
     prompt_type   |-> prompt_type,
     tokens_used   |-> IF usage.has
                       THEN Num(usage.input_tokens + usage.output_tokens)
                       ELSE Num(0),
     input_tokens  |-> IF usage.has THEN Num(usage.input_tokens) ELSE Num(0),
     output_tokens |-> IF usage.has THEN Num(usage.output_tokens) ELSE Num(0)]

\* The metadata dict of the success branch.
Metadata(prompt_type, usage) ==
    [model         |-> model,
     prompt_type   |-> prompt_type,
     tokens_used   |-> IF usage.has
                       THEN Num(usage.input_tokens + usage.output_tokens)
                       ELSE None,
     input_tokens  |-> IF usage.has THEN Num(usage.input_tokens) ELSE None,
     output_tokens |-> IF usage.has THEN Num(usage.output_tokens) ELSE None]

\* The dict of the success branch.
Success(generated_prompt, prompt_type, usage) ==
    [success  |-> TRUE,
     prompt   |-> Str(generated_prompt),
     metadata |-> Metadata(prompt_type, usage)]

\* The keyword arguments of client.messages.create.
ProviderRequest(system, message) ==
    [model       |-> model,
     max_tokens  |-> max_tokens,
     temperature |-> "0.7",
     system      |-> system,
     messages    |-> << [role |-> "user", content |-> message] >>]

\* generate_prompt calling the provider a second time after the first call
\* raised.
generate_prompt_retrying(user_input, context, prompt_type, custom_instructions, provider) ==
    IF BuildSystemPromptRaises(prompt_type)
    THEN [result |-> Failure("unhashable type: 'list'"), calls |-> << >>]
    ELSE
      LET system  == _build_system_prompt(prompt_type, custom_instructions)
          message == _build_user_message(user_input, context)
          sent    == << ProviderRequest(system, message) >>
      IN  IF provider.kind = "raise"
          THEN [result |-> Failure(provider.msg), calls |-> sent \o sent]
          ELSE IF provider.content.blocks = "tool_use"
          THEN [result |-> Failure("'ToolUseBlock' object has no attribute 'text'"),
                calls  |-> sent]
          ELSE
            LET generated_prompt ==
                    IF provider.content.blocks = "text"
                    THEN provider.content.text
                    ELSE ""
            IN  [result |-> Success(generated_prompt, prompt_type, provider.usage),
                 calls  |-> sent]

\* generate_prompt under one provider behaviour: the dict it returns and
\* the sequence of provider calls it issued.
generate_prompt(user_input, context, prompt_type, custom_instructions, provider) ==
    IF BuildSystemPromptRaises(prompt_type)
    THEN [result |-> Failure("unhashable type: 'list'"), calls |-> << >>]
    ELSE
      LET system  == _build_system_prompt(prompt_type, custom_instructions)
          message == _build_user_message(user_input, context)
          sent    == << ProviderRequest(system, message) >>
      IN  IF provider.kind = "raise"
          THEN [result |-> Failure(provider.msg), calls |-> sent]
          ELSE IF provider.content.blocks = "tool_use"
          THEN [result |-> Failure("'ToolUseBlock' object has no attribute 'text'"),
                calls  |-> sent]
          ELSE
            LET generated_prompt ==
                    IF provider.content.blocks = "text"
                    THEN provider.content.text
                    ELSE ""
            IN  [result |-> Success(generated_prompt, prompt_type, provider.usage),
                 calls  |-> sent]

\* The arguments of one invocation, as kept in the variable args.
Args(user_input, context, prompt_type, custom_instructions) ==
    [user_input          |-> user_input,
     context             |-> context,
     prompt_type         |-> prompt_type,
     custom_instructions |-> custom_instructions]

----------------------------------------------------------------------------
(* Web front end: app.py *)

\* A key that the JSON object does not have.
Missing == [tag |-> "missing"]

\* A JSON object: one value, or Missing, for each key the handler reads.
JsonObject(user_input, context, prompt_type, custom_instructions) ==
    [user_input          |-> user_input,
     context             |-> context,
     prompt_type         |-> prompt_type,
     custom_instructions |-> custom_instructions]

\* The JSON objects posted: {}, one with other keys but no user_input, one
\* with an empty user_input, and requests with and without the optional
\* keys, one of them with an array as prompt_type.
JsonObjects ==
    { JsonObject(Missing, Missing, Missing, Missing),
      JsonObject(Missing, Str("for children"), Str("creative"), Missing),
      JsonObject(Str(""), Missing, Missing, Missing),
      JsonObject(Str("a story about a lighthouse"), Missing, Missing, Missing),
      JsonObject(Str("a story about a lighthouse"), Missing, Str("creative"),
                 Missing),
      JsonObject(Str("a story about a lighthouse"), Str("for children"),
                 Str("bogus"), Str("Be brief")),
      JsonObject(Str("a story about a lighthouse"), Missing, JList, Missing) }

\* Request bodies: none at all, bytes that are not JSON, or a JSON object.
Bodies ==
    { [kind |-> "absent"], [kind |-> "malformed"] }
      \cup { [kind |-> "json", data |-> d] : d \in JsonObjects }

BadRequest ==
    "400 Bad Request: The browser (or proxy) sent a request that this server could not understand."

\* What request.get_json() can do with a body.  Flask returns None for a
\* request that does not declare JSON content (before Flask 2.1), and raises
\* an HTTPException for one that declares JSON but has nothing parseable in
\* it; a JSON object is returned as a dict.
get_json(body) ==
    CASE body.kind = "absent" ->
           { [raised |-> FALSE, data |-> None],
             [raised |-> TRUE, msg |-> BadRequest] }
      [] body.kind = "malformed" ->
           { [raised |-> TRUE, msg |-> BadRequest] }
      [] body.kind = "json" ->
           { [raised |-> FALSE, data |-> body.data] }

IsDict(data) == "tag" \notin DOMAIN data

\* not data
Falsy(data) ==
    IF IsDict(data)
    THEN \A k \in DOMAIN data : data[k] = Missing
    ELSE ~Truthy(data)

\* key in data
HasKey(data, key) == data[key] # Missing

\* data.get(key, default)
dict_get(data, key, default) ==
    IF HasKey(data, key) THEN data[key] ELSE default

\* flask.jsonify(body), status
Response(status, body) == [status |-> status, body |-> body]

\* The handler of POST /generate-prompt for the module-level generator gen,
\* one outcome json of request.get_json() and one provider behaviour.
generate_prompt_api(gen, json, provider) ==
    IF gen = "none"
    THEN [response |-> Response(500,
                        [success |-> FALSE,
                         error   |-> "Prompt generator not initialized. Check your API key."]),
          args |-> None, result |-> None, calls |-> << >>]
    ELSE IF json.raised
    THEN [response |-> Response(500,
                        [success |-> FALSE,
                         error   |-> "Internal server error: " \o json.msg]),
          args |-> None, result |-> None, calls |-> << >>]
    ELSE IF Falsy(json.data) \/ ~HasKey(json.data, "user_input")
    THEN [response |-> Response(400,
                        [success |-> FALSE,
                         error   |-> "Missing required field: user_input"]),
          args |-> None, result |-> None, calls |-> << >>]
    ELSE
      LET user_input          == json.data.user_input
          context             == dict_get(json.data, "context", None)
          prompt_type         == dict_get(json.data, "prompt_type", Str("general"))
          custom_instructions == dict_get(json.data, "custom_instructions", None)
          out == generate_prompt(user_input, context, prompt_type,
                                 custom_instructions, provider)
      IN  [response |-> Response(200, out.result),
           args     |-> Args(user_input, context, prompt_type, custom_instructions),
           result   |-> out.result,
           calls    |-> out.calls]

\* What the provider did in an operation that issued these calls.
Did(issued, provider) ==
    IF issued = << >> THEN None ELSE provider

\* The texts the builders produced in an operation that issued these calls.
BuiltSystem(issued) ==
    IF issued = << >> THEN None ELSE Str(issued[1].system)

BuiltMessage(issued) ==
    IF issued = << >> THEN None ELSE Str(issued[1].messages[1].content)

\* Whether the handler gets as far as calling generate_prompt.
Delegates(gen, json) ==
    /\ gen # "none"
    /\ ~json.raised
    /\ ~Falsy(json.data)
    /\ HasKey(json.data, "user_input")

\* The provider behaviours that matter to an operation: all of them when
\* the provider can be reached, a single one when it cannot.
Providers(reached) ==
    IF reached THEN ProviderBehaviours
    ELSE { [kind |-> "raise", msg |-> "Connection error."] }

\* One POST /generate-prompt request.
PostGeneratePrompt ==
    /\ front = "web"
    /\ pc = "serving"
    /\ ops < MaxOps
    /\ \E body \in Bodies :
         \E json \in get_json(body) :
           \E provider \in Providers(Delegates(generator, json)) :
             \E out \in { generate_prompt_api(generator, json, provider) } :
               /\ request' = body
               /\ response' = out.response
               /\ args' = out.args
               /\ result' = out.result
               /\ calls' = out.calls
               /\ provider_did' = Did(out.calls, provider)
               /\ system_prompt' = BuiltSystem(out.calls)
               /\ user_message' = BuiltMessage(out.calls)
    /\ ops' = ops + 1
    /\ UNCHANGED <<front, env_key, generator, pc, typed, health, exit_code,
                   gen_failed>>

\* The handler of GET /health for the module-level generator gen.
health_check(gen) ==
    IF gen = "none"
    THEN Response(500,
                  [status  |-> "error",
                   message |-> "Prompt generator not initialized"])
    ELSE Response(200,
                  [status  |-> "healthy",
                   service |-> "Claude Prompt Generator",
                   version |-> "1.0.0"])

\* One GET /health request.
GetHealth ==
    /\ front = "web"
    /\ pc = "serving"
    /\ health' = health_check(generator)
    /\ UNCHANGED <<front, env_key, generator, pc, args, result, calls,
                   provider_did, request, typed, response, exit_code,
                   gen_failed, system_prompt, user_message, ops>>

----------------------------------------------------------------------------
(* PromptGenerator.__init__ *)

\* "ready" when construction returns, "none" when it raises: ValueError
\* without an API key, or whatever anthropic.Anthropic(...) raises.
PromptGenerator(key_set, client_ok) ==
    IF ~key_set THEN "none"
    ELSE IF client_ok THEN "ready"
    ELSE "none"

----------------------------------------------------------------------------
(* Command line front end: cli.py *)

CliInputs == {None, Str(""), Str("Create a story prompt")}

CliTypes == {Str("general"), Str("image")}

CliContexts == {None, Str("for children")}

CliInstructions == {None, Str("Be brief")}

\* argparse namespaces: -i/--input, -t/--type, -c/--context, --instructions.
Argvs ==
    [input        : CliInputs,
     type         : CliTypes,
     context      : CliContexts,
     instructions : CliInstructions]

\* single_prompt_mode(args): its return value and what it did.
single_prompt_mode(argv, key_set, client_ok, provider) ==
    IF PromptGenerator(key_set, client_ok) = "none"
    THEN [code |-> 1, generator |-> "none",
          args |-> None, result |-> None, calls |-> << >>]
    ELSE
      LET out == generate_prompt(argv.input, argv.context, argv.type,
                                 argv.instructions, provider)
      IN  [code      |-> IF out.result.success THEN 0 ELSE 1,
           generator |-> "ready",
           args      |-> Args(argv.input, argv.context, argv.type,
                              argv.instructions),
           result    |-> out.result,
           calls     |-> out.calls]

\* Lines typed at the first input() of an iteration.
Lines == {"quit", " Exit ", "Q", "", "  ", "a story", "quite"}

\* Lines typed at the three further input() calls of an iteration: the
\* type choice, the context and the custom instructions.
Answers ==
    { <<"", "", "">>,
      <<" 2", " for children ", "Be brief">>,
      <<"9", "", "  ">> }

\* What the first input() of an iteration does: return a line, or raise
\* KeyboardInterrupt (Ctrl-C) or EOFError (end of input).
TerminalEvents ==
    { [kind |-> "interrupt"], [kind |-> "eof"] }
      \cup { [kind |-> "line", text |-> t] : t \in Lines }

ExitKeywords == {"quit", "exit", "q"}

\* prompt_types.get(type_choice, "general")
prompt_types_get(type_choice) ==
    CASE type_choice = "1" -> "general"
      [] type_choice = "2" -> "creative"
      [] type_choice = "3" -> "technical"
      [] type_choice = "4" -> "image"
      [] OTHER -> "general"

\* x if x else None
OrNone(text) == IF text # "" THEN Str(text) ELSE None

\* The loop body comparing user_input with the exit keywords without
\* lower().
interactive_iteration_case_sensitive(event, type_choice, context_line, custom_line, provider) ==
    IF event.kind = "interrupt"
    THEN [continue |-> FALSE, args |-> None, result |-> None, calls |-> << >>]
    ELSE IF event.kind = "eof"
    THEN [continue |-> TRUE, args |-> None, result |-> None, calls |-> << >>]
    ELSE
      LET user_input == strip(event.text)
      IN  IF user_input \in ExitKeywords
          THEN [continue |-> FALSE, args |-> None, result |-> None,
                calls |-> << >>]
          ELSE IF user_input = ""
          THEN [continue |-> TRUE, args |-> None, result |-> None,
                calls |-> << >>]
          ELSE
            LET prompt_type == Str(prompt_types_get(strip(type_choice)))
                context == OrNone(strip(context_line))
                custom_instructions == OrNone(strip(custom_line))
                out == generate_prompt(Str(user_input), context, prompt_type,
                                       custom_instructions, provider)
            IN  [continue |-> TRUE,
                 args     |-> Args(Str(user_input), context, prompt_type,
                                   custom_instructions),
                 result   |-> out.result,
                 calls    |-> out.calls]

\* One iteration of the while loop of interactive_mode: whether the loop
\* goes on, and what the iteration did.
interactive_iteration(event, type_choice, context_line, custom_line, provider) ==
    IF event.kind = "interrupt"
    THEN [continue |-> FALSE, args |-> None, result |-> None, calls |-> << >>]
    ELSE IF event.kind = "eof"
    THEN [continue |-> TRUE, args |-> None, result |-> None, calls |-> << >>]
    ELSE
      LET user_input == strip(event.text)
      IN  IF lower(user_input) \in ExitKeywords
          THEN [continue |-> FALSE, args |-> None, result |-> None,
                calls |-> << >>]
          ELSE IF user_input = ""
          THEN [continue |-> TRUE, args |-> None, result |-> None,
                calls |-> << >>]
          ELSE
            LET prompt_type == Str(prompt_types_get(strip(type_choice)))
                context == OrNone(strip(context_line))
                custom_instructions == OrNone(strip(custom_line))
                out == generate_prompt(Str(user_input), context, prompt_type,
                                       custom_instructions, provider)
            IN  [continue |-> TRUE,
                 args     |-> Args(Str(user_input), context, prompt_type,
                                   custom_instructions),
                 result   |-> out.result,
                 calls    |-> out.calls]

IsResult(r) == "success" \in DOMAIN r

Failed(r) == IsResult(r) /\ ~r.success

\* main() after parser.parse_args() returned argv: what it returns (code,
\* -1 while the interactive loop runs) and what it did.
cli_main(argv, key_set, client_ok, provider) ==
    IF ~key_set
    THEN [code |-> 1, generator |-> "unset",
          args |-> None, result |-> None, calls |-> << >>]
    ELSE IF Truthy(argv.input)
    THEN single_prompt_mode(argv, key_set, client_ok, provider)
    ELSE [code      |-> IF PromptGenerator(key_set, client_ok) = "none"
                        THEN 0 ELSE -1,
          generator |-> PromptGenerator(key_set, client_ok),
          args |-> None, result |-> None, calls |-> << >>]

\* main() up to its return, or up to the first iteration of the
\* interactive loop.
main ==
    /\ front = "cli"
    /\ pc = "main"
    /\ \E argv \in Argvs, client_ok \in BOOLEAN :
         \E provider \in Providers(env_key /\ Truthy(argv.input) /\ client_ok) :
           \E out \in { cli_main(argv, env_key, client_ok, provider) } :
             /\ request' = argv
             /\ exit_code' = out.code
             /\ pc' = IF out.code = -1 THEN "loop" ELSE "exited"
             /\ generator' = out.generator
             /\ args' = out.args
             /\ result' = out.result
             /\ calls' = out.calls
             /\ provider_did' = Did(out.calls, provider)
             /\ gen_failed' = Failed(out.result)
             /\ system_prompt' = BuiltSystem(out.calls)
             /\ user_message' = BuiltMessage(out.calls)
    /\ UNCHANGED <<front, env_key, typed, response, health, ops>>

\* Whether an iteration that starts with this event asks for the other
\* three lines and calls generate_prompt.
AsksMore(event) ==
    /\ event.kind = "line"
    /\ lower(strip(event.text)) \notin ExitKeywords
    /\ strip(event.text) # ""

\* What one iteration of the interactive loop does once its first input()
\* has returned event; when the loop breaks, interactive_mode returns and
\* main returns 0.
IterationOn(event) ==
    \E answer \in IF AsksMore(event) THEN Answers ELSE { <<"", "", "">> },
       provider \in Providers(AsksMore(event)) :
      \E out \in { interactive_iteration(event, answer[1], answer[2],
                                         answer[3], provider) } :
        /\ request' = event
        /\ args' = out.args
        /\ result' = out.result
        /\ calls' = out.calls
        /\ provider_did' = Did(out.calls, provider)
        /\ gen_failed' = (gen_failed \/ Failed(out.result))
        /\ pc' = IF out.continue THEN "loop" ELSE "exited"
        /\ exit_code' = IF out.continue THEN -1 ELSE 0
        /\ system_prompt' = BuiltSystem(out.calls)
        /\ user_message' = BuiltMessage(out.calls)

\* One iteration of the interactive loop, with the event its input() gets.
InteractiveIteration ==
    /\ front = "cli"
    /\ pc = "loop"
    /\ ops < MaxOps
    /\ \E event \in TerminalEvents : IterationOn(event)
    /\ ops' = ops + 1
    /\ UNCHANGED <<front, env_key, generator, typed, response, health>>

\* The user acts at the terminal while the loop is blocked in its first
\* input(): types a line, or presses Ctrl-C or Ctrl-D.
UserTypes ==
    /\ front = "cli"
    /\ pc = "loop"
    /\ typed = None
    /\ ops < MaxOps
    /\ \E event \in TerminalEvents : typed' = event
    /\ UNCHANGED <<front, env_key, generator, pc, args, result, calls,
                   provider_did, request, response, health, exit_code,
                   gen_failed, system_prompt, user_message, ops>>

\* input() returns what the user typed and the iteration runs to its end.
LoopIteration ==
    /\ front = "cli"
    /\ pc = "loop"
    /\ typed # None
    /\ IterationOn(typed)
    /\ typed' = None
    /\ ops' = ops + 1
    /\ UNCHANGED <<front, env_key, generator, response, health>>

----------------------------------------------------------------------------
(* Direct use of the two builders *)

LibPromptTypes ==
    { Str(t) : t \in PromptTypes } \cup { Str("bogus"), Str("General"), Str(""), None }

LibCustomInstructions ==
    { None, Str(""), Str("Be brief"), Str("Additional instructions: none") }

LibUserInputs ==
    { Str(""), Str("a story"), Str("Additional context"),
      Str("no Additional context: here") }

LibContexts ==
    { None, Str(""), Str("for children"), Str("Additional context"),
      Str("more\n\nAdditional context: even more") }

\* A caller's call of _build_system_prompt.
BuildSystemPrompt ==
    /\ front = "lib"
    /\ \E prompt_type \in LibPromptTypes,
          custom_instructions \in LibCustomInstructions :
         /\ args' = [args EXCEPT !.prompt_type = prompt_type,
                                 !.custom_instructions = custom_instructions]
         /\ system_prompt' =
                Str(_build_system_prompt(prompt_type, custom_instructions))
    /\ UNCHANGED <<front, env_key, generator, pc, result, calls, provider_did,
                   request, typed, response, health, exit_code, gen_failed,
                   user_message, ops>>

\* A caller's call of _build_user_message.
BuildUserMessage ==
    /\ front = "lib"
    /\ \E user_input \in LibUserInputs, context \in LibContexts :
         /\ args' = [args EXCEPT !.user_input = user_input,
                                 !.context = context]
         /\ user_message' = Str(_build_user_message(user_input, context))
    /\ UNCHANGED <<front, env_key, generator, pc, result, calls, provider_did,
                   request, typed, response, health, exit_code, gen_failed,
                   system_prompt, ops>>

----------------------------------------------------------------------------
(* The processes *)

Init ==
    /\ front \in {"web", "cli", "lib"}
    /\ env_key \in BOOLEAN
    /\ generator \in
         IF front = "web"
         THEN { PromptGenerator(env_key, client_ok) : client_ok \in BOOLEAN }
         ELSE { "unset" }
    /\ pc = CASE front = "web" -> "serving"
              [] front = "cli" -> "main"
              [] front = "lib" -> "lib"
    /\ args = IF front = "lib" THEN Args(None, None, None, None) ELSE None
    /\ result = None
    /\ calls = << >>
    /\ provider_did = None
    /\ request = None
    /\ typed = None
    /\ response = None
    /\ health = None
    /\ exit_code = -1
    /\ gen_failed = FALSE
    /\ system_prompt = None
    /\ user_message = None
    /\ ops = 0

Next ==
    \/ PostGeneratePrompt
    \/ GetHealth
    \/ main
    \/ InteractiveIteration
    \/ BuildSystemPrompt
    \/ BuildUserMessage

Spec == Init /\ [][Next]_vars

\* The command line process alone, with the user and the loop as separate
\* steps.  An iteration whose input() has returned runs to its end: it only
\* waits for the provider call, which returns or raises.
LoopInit == Init /\ front = "cli"

LoopNext ==
    \/ main
    \/ UserTypes
    \/ LoopIteration

\* The step that takes the line input() returned into the loop body.  Among
\* the steps of LoopNext these are exactly the LoopIteration steps, and it
\* is enabled exactly when LoopIteration is, since interactive_iteration has
\* an outcome for every event.
LoopBodyRuns ==
    /\ pc = "loop"
    /\ typed # None
    /\ typed' = None

LoopSpec == LoopInit /\ [][LoopNext]_vars /\ WF_typed(LoopBodyRuns)

----------------------------------------------------------------------------
(* Properties *)

IsResponse(r) == "status" \in DOMAIN r

IsArgs(a) == "user_input" \in DOMAIN a

\* C1: whenever an error was raised inside generate_prompt (by template
\* resolution, by the provider call or by response extraction), the result
\* it returned is a Failure whose error message is a non-empty string.
C1_FailureMessageNonEmpty ==
    IsResult(result) /\ ~result.success
        => result.error \in STRING /\ result.error # ""

\* C2: with the generator available, a POST whose body is absent, is the
\* empty object or lacks user_input is answered 400 with the body
\* {success: false, error: "Missing required field: user_input"}, and the
\* provider is not called while handling it.
C2_MissingUserInputIs400 ==
    /\ front = "web"
    /\ generator = "ready"
    /\ IsResponse(response)
    /\ \/ request.kind = "absent"
       \/ request.kind = "json" /\ request.data.user_input = Missing
    => /\ response.status = 400
       /\ response.body =
            [success |-> FALSE, error |-> "Missing required field: user_input"]
       /\ calls = << >>

\* C3: a response of the generate route has status 200 when its body says
\* success, and 400 or 500 when its body says failure: a body with
\* success = false never carries status 200.
C3_FailureNeverStatus200 ==
    IsResponse(response)
        => /\ response.body.success => response.status = 200
           /\ ~response.body.success => response.status \in {400, 500}

\* C4: through every front end, the provider is never called for a request
\* whose user_input is the empty string.
C4_NoCallForEmptyUserInput ==
    IsArgs(args) /\ args.user_input = Str("") => calls = << >>

\* C5: every result of generate_prompt is exactly one of the two variants:
\* Success (success true, prompt a string, metadata not null, no error key)
\* or Failure (success false, error a string, prompt and metadata null).
C5_ExactlyOneVariant ==
    IsResult(result) =>
        \/ /\ DOMAIN result = {"success", "prompt", "metadata"}
           /\ result.success = TRUE
           /\ result.prompt.tag = "str"
           /\ result.metadata # None
        \/ /\ DOMAIN result = {"success", "error", "prompt", "metadata"}
           /\ result.success = FALSE
           /\ result.error \in STRING
           /\ result.prompt = None
           /\ result.metadata = None

\* A Failure result has been returned after the provider was called.
C5_Witness ==
    /\ IsResult(result)
    /\ ~result.success
    /\ Len(calls) = 1

\* C6: when the provider returned a response whose text could be extracted,
\* the result is a Success; its metadata carries input_tokens = i,
\* output_tokens = o and tokens_used = i + o when the response has usage
\* counters i and o, and null in all three fields when it has no usage.
C6_TokenMetadata ==
    /\ provider_did # None
    /\ provider_did.kind = "response"
    /\ provider_did.content.blocks # "tool_use"
    => /\ result.success
       /\ IF provider_did.usage.has
          THEN /\ result.metadata.input_tokens = Num(provider_did.usage.input_tokens)
               /\ result.metadata.output_tokens = Num(provider_did.usage.output_tokens)
               /\ result.metadata.tokens_used =
                    Num(provider_did.usage.input_tokens
                          + provider_did.usage.output_tokens)
          ELSE /\ result.metadata.input_tokens = None
               /\ result.metadata.output_tokens = None
               /\ result.metadata.tokens_used = None

\* A Success whose response reported one input and one output token.
C6_Witness ==
    /\ IsResult(result)
    /\ result.success
    /\ provider_did.usage.has
    /\ provider_did.usage.input_tokens = 1
    /\ provider_did.usage.output_tokens = 1
    /\ result.metadata.tokens_used = Num(2)

\* The system text C7 expects for a category and custom instructions.
C7_Expected(prompt_type, custom_instructions) ==
    LET base == IF prompt_type.tag = "str"
                     /\ prompt_type.v \in {"general", "creative", "technical", "image"}
                THEN base_prompts[prompt_type.v]
                ELSE base_prompts["general"]
    IN  IF custom_instructions.tag = "str" /\ custom_instructions.v # ""
        THEN base \o "\n\n" \o "Additional instructions: " \o custom_instructions.v
        ELSE base

\* C7: the four catalog texts are non-empty and pairwise distinct; the
\* system text built for a category string is its catalog text, or the
\* general text for an unknown category (never an error), followed by a
\* blank line and "Additional instructions: " plus the custom instructions
\* when these are non-empty, and nothing more when they are absent or empty.
C7_SystemText ==
    /\ \A t \in {"general", "creative", "technical", "image"} :
         /\ base_prompts[t] # ""
         /\ \A u \in {"general", "creative", "technical", "image"} :
              base_prompts[t] = base_prompts[u] => t = u
    /\ IsArgs(args) /\ system_prompt # None
         => system_prompt.v
              = C7_Expected(args.prompt_type, args.custom_instructions)
    /\ IsArgs(args) /\ IsResult(result) /\ args.prompt_type.tag = "str"
         => system_prompt # None

\* The general text with custom instructions appended has been built for
\* an unknown category.
C7_Witness ==
    /\ IsArgs(args)
    /\ args.prompt_type = Str("bogus")
    /\ args.custom_instructions = Str("Be brief")
    /\ system_prompt = Str(base_prompts["general"]
                             \o "\n\nAdditional instructions: Be brief")

\* Every occurrence of needle in text starts after the first len characters.
AllAfter(needle, text, len) ==
    \A i \in Occurrences(needle, text) : i > len

\* C8 as stated: for every user_input, the message composed without a
\* context never contains "Additional context"; composed with a non-empty
\* context it contains "Additional context" exactly once, after the request
\* line "Please create a prompt based on this request: {user_input}".
C8_AdditionalContextOnce ==
    IsArgs(args) /\ user_message # None /\ args.user_input.tag = "str" =>
        LET line == "Please create a prompt based on this request: "
                        \o args.user_input.v
        IN  /\ args.context = None
                => ~Contains("Additional context", user_message.v)
            /\ args.context.tag = "str" /\ args.context.v # ""
                => /\ Count("Additional context", user_message.v) = 1
                   /\ StartsWith(user_message.v, line)
                   /\ AllAfter("Additional context", user_message.v, Len(line))

\* C8 amended: the same, for a user_input and a context that do not
\* themselves contain "Additional context".
C8_AdditionalContextOnceIfInputsFree ==
    /\ IsArgs(args)
    /\ user_message # None
    /\ args.user_input.tag = "str"
    /\ ~Contains("Additional context", args.user_input.v)
    =>  LET line == "Please create a prompt based on this request: "
                        \o args.user_input.v
        IN  /\ args.context = None
                => ~Contains("Additional context", user_message.v)
            /\ ( /\ args.context.tag = "str"
                 /\ args.context.v # ""
                 /\ ~Contains("Additional context", args.context.v) )
                => /\ Count("Additional context", user_message.v) = 1
                   /\ StartsWith(user_message.v, line)
                   /\ AllAfter("Additional context", user_message.v, Len(line))

\* A message has been composed from a user_input and a non-empty context
\* that are both free of "Additional context".
C8_Witness ==
    /\ IsArgs(args)
    /\ args.user_input = Str("a story")
    /\ args.context = Str("for children")
    /\ user_message =
         Str("Please create a prompt based on this request: a story\n\nAdditional context: for children")

\* C9: an invocation of generate_prompt issues at most one provider call:
\* none when template resolution fails, exactly one otherwise, and still
\* exactly one when that call raised (no retry); an operation that does not
\* invoke generate_prompt issues none.
C9_SingleProviderCall ==
    /\ Len(calls) <= 1
    /\ ~IsResult(result) => calls = << >>
    /\ IsResult(result)
         => Len(calls) = IF args.prompt_type.tag = "list" THEN 0 ELSE 1
    /\ provider_did # None /\ provider_did.kind = "raise" => Len(calls) = 1

\* The provider call of an invocation raised.
C9_Witness ==
    /\ IsResult(result)
    /\ provider_did # None
    /\ provider_did.kind = "raise"
    /\ Len(calls) = 1

\* C10: when the CLI process has exited, its exit code is 1 if the
\* credential was missing, client construction failed or a generation
\* returned Failure, in single-shot and in interactive mode alike, and 0 if
\* its generation succeeded.
C10_ExitCode ==
    front = "cli" /\ pc = "exited" =>
        /\ ~env_key \/ generator = "none" \/ gen_failed => exit_code = 1
        /\ IsResult(result) /\ result.success /\ ~gen_failed => exit_code = 0

\* C11: every answer of GET /health has a body with the fields status,
\* service and version; it is status "healthy" with HTTP 200 when the
\* generator was initialized, and status "error" with HTTP 500 exactly when
\* the generator failed to initialize.
C11_HealthAnswer ==
    IsResponse(health) =>
        /\ {"status", "service", "version"} \subseteq DOMAIN health.body
        /\ generator = "ready"
             => health.status = 200 /\ health.body.status = "healthy"
        /\ (health.status = 500 /\ health.body.status = "error")
             <=> generator = "none"

\* A terminal event handled or awaited by the interactive loop.
IsEvent(e) == "kind" \in DOMAIN e /\ e.kind \in {"line", "interrupt", "eof"}

\* A line that is quit, exit or q in any letter case, blanks around it
\* aside.
IsExitLine(e) ==
    /\ e.kind = "line"
    /\ \E k \in {"quit", "exit", "q"} : lower(strip(e.text)) = k

\* What the state is after the iteration that handled the event in request.
C12_AfterIteration ==
    front = "cli" /\ IsEvent(request) =>
        /\ IsExitLine(request)
             => pc = "exited" /\ calls = << >> /\ ~IsResult(result)
        /\ request.kind = "interrupt"
             => pc = "exited" /\ calls = << >> /\ ~IsResult(result)
        /\ request.kind = "eof"
             => pc = "loop" /\ ~IsResult(result)
        /\ request.kind = "line" /\ ~IsExitLine(request)
             => /\ pc = "loop"
                /\ IF strip(request.text) = ""
                   THEN ~IsResult(result) /\ calls = << >>
                   ELSE /\ IsResult(result)
                        /\ Len(calls) = 1
                        /\ args.user_input = Str(strip(request.text))

\* The loop ends only in an iteration that got an exit keyword or Ctrl-C.
C12_EndsOnlyOnExit ==
    pc = "loop" /\ pc' = "exited"
        => IsExitLine(request') \/ request'.kind = "interrupt"

====
